---- MODULE Spec2Model ----
(***************************************************************************)
(* Model of mangaki/management/commands/morphingpm.py: the module-level    *)
(* loader that builds index_posters and poster_tags from mangaki_i2v.json, *)
(* and morphing(a, b, subdiv), one loop iteration per step.                *)
(*                                                                         *)
(* Arithmetic.  Tag weights are integers here, and every comparison the    *)
(* code makes between floating-point quantities is evaluated exactly, by   *)
(* cross-multiplication.  With S = |segment|^2 (so seg_norm = sqrt(S)),    *)
(* D = dot(current, segment) and k = subdiv:                               *)
(*    projection              = D / sqrt(S)                                *)
(*    subdiv_lenght           = sqrt(S) / k                                *)
(*    projection > subdiv_lenght/2             <=>  2kD > S                *)
(*    projection < seg_norm - subdiv_lenght/2  <=>  2kD < (2k-1)S          *)
(*    ((projection - subdiv_lenght/2)/seg_norm)*k  =  (2kD - S) / (2S)     *)
(*    distance(sub_middles[j], v)^2 * k^2 = |k*va + (j+1)*segment - k*v|^2 *)
(* When S = 0 the division 0.0/0.0 of two numpy float64 yields nan, and    *)
(* every comparison with nan is false.  IEEE-754 rounding is not modelled. *)
(***************************************************************************)
EXTENDS Integers, Sequences, FiniteSets, TLC

\* Bounds of the model.
MaxId == 3
MaxPosters == 3
MaxWeight == 2
MaxSubdiv == 3
MaxUsers == 1
MaxWorks == 1
MaxHandlers == 2

(***************************************************************************)
(* Python helpers                                                          *)
(***************************************************************************)

\* list/array index normalisation: a negative index counts from the end
PyIdx(idx, len) == IF idx < 0 THEN idx + len ELSE idx

\* an index that does not raise IndexError
PyValid(idx, len) == PyIdx(idx, len) \in 0..(len - 1)

\* `x in lst` for a list held as a function over 0..n-1
PyIn(x, lst) == \E j \in DOMAIN lst : lst[j] = x

RECURSIVE SumTo(_, _)
\* f[0] + ... + f[n-1]
SumTo(f, n) == IF n = 0 THEN 0 ELSE SumTo(f, n - 1) + f[n - 1]

RECURSIVE MaxOf(_, _)
\* max(lst) over lst[0..n-1], n >= 1
MaxOf(lst, n) ==
    IF n = 1 THEN lst[0]
    ELSE LET m == MaxOf(lst, n - 1) IN IF lst[n - 1] > m THEN lst[n - 1] ELSE m

(***************************************************************************)
(* The tag table and the source data                                       *)
(***************************************************************************)

\* mangaki.utils.values.tags_definition: tag name -> column
tags_definition == ("catgirl" :> 0) @@ ("robot" :> 1)

nb_tags == Cardinality(DOMAIN tags_definition)

Cols == 0..(nb_tags - 1)

Digits == <<"0", "1", "2", "3", "4", "5", "6", "7", "8", "9">>

DigitVal(c) == CHOOSE d \in 0..9 : Digits[d + 1] = c

RECURSIVE ParseInt(_)
\* int(s) for a string of decimal digits, most significant first
ParseInt(s) ==
    IF s = <<>> THEN 0
    ELSE 10 * ParseInt(SubSeq(s, 1, Len(s) - 1)) + DigitVal(s[Len(s)])

\* int(poster[:len(poster)-4])
PosterIndex(poster) == ParseInt(SubSeq(poster, 1, Len(poster) - 4))

\* the key "<id>.jpg" of the source file
KeyOf(id) == <<Digits[id + 1], ".", "j", "p", "g">>

\* the [tag, value] pairs a 'general' list may hold
TagPairs == {<<t, w>> : t \in DOMAIN tags_definition, w \in 1..MaxWeight}

\* the 'general' lists of the source: at most one entry per tag
TagLists ==
    {g \in UNION {[1..n -> TagPairs] : n \in 0..nb_tags} :
        \A x, y \in DOMAIN g :
            x < y => tags_definition[g[x][1]] < tags_definition[g[y][1]]}

\* what the source says of one identifier: no key, or a key with a list
Entries ==
    {[present |-> FALSE, general |-> <<>>]}
        \cup {[present |-> TRUE, general |-> g] : g \in TagLists}

RECURSIVE PostersOf(_, _)
\* the content of mangaki_i2v.json, in file order, for identifiers below n
PostersOf(f, n) ==
    IF n = 0 THEN <<>>
    ELSE IF f[n - 1].present
         THEN Append(PostersOf(f, n - 1),
                     [key |-> KeyOf(n - 1), general |-> f[n - 1].general])
         ELSE PostersOf(f, n - 1)

\* a worker that serves no request
IdleHandler ==
    [pc |-> "idle", user |-> 0, work |-> 0, choice |-> "", obj |-> 0, resp |-> ""]

VARIABLES
    posters,        \* json.load(...): sequence of [key, general]
    index_posters,  \* list of the identifiers of the posters
    poster_tags,    \* the matrix, row -> column -> weight
    lpc,            \* position in the module-level code
    li,             \* loop counter of the module-level loops
    a, b, subdiv,   \* arguments of the current call of morphing
    morphism,       \* the list being built, position -> identifier
    i,              \* loop variable of the scan
    pc,             \* "idle", "scan", "returned", "raised"
    err,            \* the exception of a raised call
    placed,         \* history: the <<slot, candidate>> assignments of this call
    ratings,        \* the rows of the Rating table (views.py)
    handlers        \* the rate_work requests being served, one per worker

vars == <<posters, index_posters, poster_tags, lpc, li,
          a, b, subdiv, morphism, i, pc, err, placed, ratings, handlers>>

viewVars == <<ratings, handlers>>

loaderVars == <<posters, index_posters, poster_tags, lpc, li>>

callVars == <<a, b, subdiv, morphism, i, pc, err, placed>>

(***************************************************************************)
(* Module-level code, lines 10-22                                          *)
(***************************************************************************)

Init ==
    /\ \E f \in [0..MaxId -> Entries] :
          /\ Cardinality({id \in 0..MaxId : f[id].present}) \in 1..MaxPosters
          /\ posters = PostersOf(f, MaxId + 1)
    /\ index_posters = [j \in 0..(Len(posters) - 1) |-> 0]
    /\ poster_tags = <<>>
    /\ lpc = "index"
    /\ li = 0
    /\ a = 0 /\ b = 0 /\ subdiv = 0
    /\ morphism = <<>>
    /\ i = 0
    /\ pc = "idle"
    /\ err = "none"
    /\ placed = {}
    /\ ratings = {}
    /\ handlers = [h \in 1..MaxHandlers |-> IdleHandler]

\* lines 14-17: one iteration of the first loop
IndexPoster ==
    /\ lpc = "index"
    /\ li < Len(posters)
    /\ index_posters' = [index_posters EXCEPT ![li] = PosterIndex(posters[li + 1].key)]
    /\ li' = li + 1
    /\ UNCHANGED <<posters, poster_tags, lpc>>
    /\ UNCHANGED callVars
    /\ UNCHANGED viewVars

\* np.zeros((rows, nb_tags))
Zeros(rows) == [r \in 0..(rows - 1) |-> [c \in Cols |-> 0]]

\* line 18
RowCountOffByOne(lst) == MaxOf(lst, Len(posters))

RowCount(lst) == MaxOf(lst, Len(posters)) + 1

Allocate ==
    /\ lpc = "index"
    /\ li = Len(posters)
    /\ poster_tags' = Zeros(RowCount(index_posters))
    /\ lpc' = "fill"
    /\ li' = 0
    /\ UNCHANGED <<posters, index_posters>>
    /\ UNCHANGED callVars
    /\ UNCHANGED viewVars

RECURSIVE SetTags(_, _, _)
\* lines 21-22: the inner loop over the first n pairs of a 'general' list
SetTags(row, general, n) ==
    IF n = 0 THEN row
    ELSE [SetTags(row, general, n - 1) EXCEPT
             ![tags_definition[general[n][1]]] = general[n][2]]

\* lines 19-22: one iteration of the second loop
FillPoster ==
    /\ lpc = "fill"
    /\ li < Len(posters)
    /\ LET index == PosterIndex(posters[li + 1].key)
           general == posters[li + 1].general
       IN poster_tags' =
              [poster_tags EXCEPT ![index] = SetTags(@, general, Len(general))]
    /\ li' = li + 1
    /\ UNCHANGED <<posters, index_posters, lpc>>
    /\ UNCHANGED callVars
    /\ UNCHANGED viewVars

Loaded ==
    /\ lpc = "fill"
    /\ li = Len(posters)
    /\ lpc' = "ready"
    /\ UNCHANGED <<posters, index_posters, poster_tags, li>>
    /\ UNCHANGED callVars
    /\ UNCHANGED viewVars

(***************************************************************************)
(* morphing(a, b, subdiv), lines 28-51                                     *)
(***************************************************************************)

\* line 38
nb_posters == Cardinality(DOMAIN poster_tags)

\* poster_tags[x]
Row(x) == poster_tags[PyIdx(x, nb_posters)]

\* line 29
segment == [c \in Cols |-> Row(b)[c] - Row(a)[c]]

Dot(u, v) == SumTo([c \in Cols |-> u[c] * v[c]], nb_tags)

\* seg_norm squared (line 30)
SegSq == Dot(segment, segment)

\* line 42
current(x) == [c \in Cols |-> Row(x)[c] - Row(a)[c]]

\* np.dot(current, segment), the numerator of line 43
ProjDot(x) == Dot(current(x), segment)

\* the division of line 43 with native floats, which raises on a zero divisor
NativeDivide(s) == IF s = 0 THEN "raise" ELSE "finite"

\* the division of line 43: numpy float64 0.0/0.0 is nan, it does not raise
Divide(s) == IF s = 0 THEN "nan" ELSE "finite"

\* line 45 with inclusive bounds
InBandInclusive(x) ==
    /\ Divide(SegSq) = "finite"
    /\ 2 * subdiv * ProjDot(x) >= SegSq
    /\ 2 * subdiv * ProjDot(x) <= (2 * subdiv - 1) * SegSq

\* line 45
InBand(x) ==
    /\ Divide(SegSq) = "finite"
    /\ 2 * subdiv * ProjDot(x) > SegSq
    /\ 2 * subdiv * ProjDot(x) < (2 * subdiv - 1) * SegSq

\* line 47 without the half-slot offset
SubInNoOffset(x) == ((2 * subdiv * ProjDot(x)) \div (2 * SegSq)) + 1

\* line 47 without the final + 1
SubInZeroBased(x) == (2 * subdiv * ProjDot(x) - SegSq) \div (2 * SegSq)

\* line 47
SubIn(x) == ((2 * subdiv * ProjDot(x) - SegSq) \div (2 * SegSq)) + 1

\* k^2 * distance(sub_middles[j], poster_tags[x])^2, lines 24-26 and 34
DistSq(j, x) ==
    SumTo([c \in Cols |->
              (subdiv * Row(a)[c] + (j + 1) * segment[c] - subdiv * Row(x)[c])
            * (subdiv * Row(a)[c] + (j + 1) * segment[c] - subdiv * Row(x)[c])],
          nb_tags)

\* line 49, second operand
Nearer(j, x, y) == DistSq(j, x) < DistSq(j, y)

\* line 41 without the membership test
IsCandidateAnyRow(x) == x # a /\ x # b

\* line 41
IsCandidate(x) == x # a /\ x # b /\ PyIn(x, index_posters)

\* line 50 writing the neighbouring slot as well
AssignOverlap(m, s, x) ==
    [p \in DOMAIN m |-> IF p = s \/ (p = s - 1 /\ p >= 1) THEN x ELSE m[p]]

\* line 50
Assign(m, s, x) == [m EXCEPT ![s] = x]

\* lines 41-50: the loop body for row x on morphism m
Visit(m, x) ==
    LET keep == [m |-> m, err |-> "none", at |-> -1]
        indexError == [m |-> m, err |-> "IndexError", at |-> -1]
    IN  IF ~IsCandidate(x) THEN keep
        ELSE IF Divide(SegSq) = "raise"
             THEN [m |-> m, err |-> "ZeroDivisionError", at |-> -1]
        ELSE IF ~InBand(x) THEN keep
        ELSE LET sub_in == SubIn(x) IN
             IF ~PyValid(sub_in, subdiv + 1) THEN indexError
             ELSE LET s == PyIdx(sub_in, subdiv + 1) IN
                  IF m[s] = 0
                  THEN [m |-> Assign(m, s, x), err |-> "none", at |-> s]
                  ELSE IF ~PyValid(sub_in - 1, subdiv - 1) THEN indexError
                  ELSE IF Nearer(PyIdx(sub_in - 1, subdiv - 1), x, m[s])
                       THEN [m |-> Assign(m, s, x), err |-> "none", at |-> s]
                       ELSE keep

\* lines 28-38
Call ==
    /\ lpc = "ready"
    /\ pc = "idle"
    /\ \E x, y \in (-1)..(MaxId + 1), k \in 1..MaxSubdiv :
          /\ a' = x /\ b' = y /\ subdiv' = k
          /\ placed' = {}
          /\ i' = 0
          /\ IF PyValid(x, nb_posters) /\ PyValid(y, nb_posters)
             THEN /\ morphism' = [p \in 0..k |->
                                    IF p = k THEN y ELSE IF p = 0 THEN x ELSE 0]
                  /\ pc' = "scan"
                  /\ err' = "none"
             ELSE /\ morphism' = <<>>
                  /\ pc' = "raised"
                  /\ err' = "IndexError"
    /\ UNCHANGED loaderVars
    /\ UNCHANGED viewVars

\* lines 39-50: one iteration of the scan
ScanStep ==
    /\ pc = "scan"
    /\ i < nb_posters
    /\ LET r == Visit(morphism, i) IN
          /\ morphism' = r.m
          /\ err' = r.err
          /\ pc' = IF r.err = "none" THEN "scan" ELSE "raised"
          /\ placed' = IF r.at = -1 THEN placed ELSE placed \cup {<<r.at, i>>}
    /\ i' = i + 1
    /\ UNCHANGED <<a, b, subdiv>>
    /\ UNCHANGED loaderVars
    /\ UNCHANGED viewVars

\* line 51
Return ==
    /\ pc = "scan"
    /\ i = nb_posters
    /\ pc' = "returned"
    /\ UNCHANGED <<a, b, subdiv, morphism, i, err, placed>>
    /\ UNCHANGED loaderVars
    /\ UNCHANGED viewVars

\* the caller is done with the result or the exception of the call
Done ==
    /\ pc \in {"returned", "raised"}
    /\ pc' = "idle"
    /\ a' = 0 /\ b' = 0 /\ subdiv' = 0
    /\ morphism' = <<>>
    /\ i' = 0
    /\ err' = "none"
    /\ placed' = {}
    /\ UNCHANGED loaderVars
    /\ UNCHANGED viewVars

Next ==
    \/ IndexPoster
    \/ Allocate
    \/ FillPoster
    \/ Loaded
    \/ Call
    \/ ScanStep
    \/ Return
    \/ Done

Spec == Init /\ [][Next]_vars

(***************************************************************************)
(* rate_work(request, work_id), views.py lines 330-343.  Every query on    *)
(* Rating is one statement of the database, run in autocommit mode; the    *)
(* statements of requests served by different workers interleave.          *)
(***************************************************************************)

\* line 336
Choices == {"like", "neutral", "dislike", "willsee", "wontsee"}

\* what request.POST.get('choice', '') may yield
PostedChoices == Choices \cup {"", "love"}

\* request.user: an authenticated user, or 0 for the anonymous user
Users == 1..MaxUsers

\* the ids of the rows of Work
Works == 1..MaxWorks

\* Rating.objects.filter(user=u, work=w, choice=c)
FilterChoice(u, w, c) ==
    {r \in ratings : r.user = u /\ r.work = w /\ r.choice = c}

\* the lookup of update_or_create: Rating.objects.filter(user=u, work=w)
FilterWork(u, w) == {r \in ratings : r.user = u /\ r.work = w}

\* the primary key of a new row: one that no row has and no worker holds
FreshPk ==
    CHOOSE k \in 1..(Cardinality(ratings) + MaxHandlers + 1) :
        /\ \A r \in ratings : r.pk # k
        /\ \A h \in DOMAIN handlers : handlers[h].obj # k
        /\ \A j \in 1..(k - 1) :
              \/ \E r \in ratings : r.pk = j
              \/ \E h \in DOMAIN handlers : handlers[h].obj = j

\* INSERT INTO rating: the table accepts any row with a new primary key
InsertRating(rows, r) == rows \cup {r}

\* the response is sent
Responded(resp) == [IdleHandler EXCEPT !.pc = "done", !.resp = resp]

InitRate ==
    /\ posters = <<>>
    /\ index_posters = <<>>
    /\ poster_tags = <<>>
    /\ lpc = "index"
    /\ li = 0
    /\ a = 0 /\ b = 0 /\ subdiv = 0
    /\ morphism = <<>>
    /\ i = 0
    /\ pc = "idle"
    /\ err = "none"
    /\ placed = {}
    /\ ratings = {}
    /\ handlers = [h \in 1..MaxHandlers |-> IdleHandler]

\* lines 331-338: a request arrives at worker h and runs up to the count query
Receive(h) ==
    /\ handlers[h].pc = "idle"
    /\ \E u \in 0..MaxUsers, method \in {"POST", "GET"},
          w \in 1..(MaxWorks + 1), c \in PostedChoices :
          handlers' = [handlers EXCEPT ![h] =
              IF ~(u # 0 /\ method = "POST") THEN Responded("")
              ELSE IF w \notin Works THEN Responded("404")
              ELSE IF c \notin Choices THEN Responded("")
              ELSE [pc |-> IF Cardinality(FilterChoice(u, w, c)) > 0
                           THEN "delete" ELSE "get",
                    user |-> u, work |-> w, choice |-> c,
                    obj |-> 0, resp |-> ""]]
    /\ UNCHANGED ratings
    /\ UNCHANGED <<loaderVars, callVars>>

\* lines 339-340
Delete(h) ==
    /\ handlers[h].pc = "delete"
    /\ ratings' = ratings \ FilterChoice(handlers[h].user, handlers[h].work,
                                         handlers[h].choice)
    /\ handlers' = [handlers EXCEPT ![h] = Responded("none")]
    /\ UNCHANGED <<loaderVars, callVars>>

\* line 341, update_or_create: self.get(user=..., work=...)
Get(h) ==
    /\ handlers[h].pc = "get"
    /\ LET found == FilterWork(handlers[h].user, handlers[h].work) IN
          handlers' = [handlers EXCEPT ![h] =
              IF found = {} THEN [@ EXCEPT !.pc = "create"]
              ELSE IF Cardinality(found) = 1
                   THEN [@ EXCEPT !.pc = "save",
                                  !.obj = (CHOOSE r \in found : TRUE).pk]
                   ELSE Responded("500")]
    /\ UNCHANGED ratings
    /\ UNCHANGED <<loaderVars, callVars>>

\* lines 341-342, update_or_create: no row was found, create one
Create(h) ==
    /\ handlers[h].pc = "create"
    /\ ratings' = InsertRating(ratings,
                      [pk |-> FreshPk, user |-> handlers[h].user,
                       work |-> handlers[h].work, choice |-> handlers[h].choice])
    /\ handlers' = [handlers EXCEPT ![h] = Responded(handlers[h].choice)]
    /\ UNCHANGED <<loaderVars, callVars>>

\* lines 341-342, update_or_create: obj.save() of the row that was found,
\* an UPDATE by primary key, or an INSERT when the row is gone
Save(h) ==
    /\ handlers[h].pc = "save"
    /\ LET row == [pk |-> handlers[h].obj, user |-> handlers[h].user,
                   work |-> handlers[h].work, choice |-> handlers[h].choice]
       IN  ratings' = InsertRating({r \in ratings : r.pk # row.pk}, row)
    /\ handlers' = [handlers EXCEPT ![h] = Responded(handlers[h].choice)]
    /\ UNCHANGED <<loaderVars, callVars>>

\* the worker is free for the next request
Finish(h) ==
    /\ handlers[h].pc = "done"
    /\ handlers' = [handlers EXCEPT ![h] = IdleHandler]
    /\ UNCHANGED ratings
    /\ UNCHANGED <<loaderVars, callVars>>

NextRate ==
    \/ \E h \in 1..MaxHandlers : Receive(h)
    \/ \E h \in 1..MaxHandlers : Delete(h)
    \/ \E h \in 1..MaxHandlers : Get(h)
    \/ \E h \in 1..MaxHandlers : Create(h)
    \/ \E h \in 1..MaxHandlers : Save(h)
    \/ \E h \in 1..MaxHandlers : Finish(h)

SpecRate == InitRate /\ [][NextRate]_vars

(***************************************************************************)
(* Vocabulary of the properties                                            *)
(***************************************************************************)

\* a call whose result or exception the caller has not yet taken
CallActive == lpc = "ready" /\ pc # "idle"

\* the precondition of morph: a # b, both row indices of the corpus
ValidEndpoints ==
    /\ a # b
    /\ a \in 0..(nb_posters - 1)
    /\ b \in 0..(nb_posters - 1)

Interior == 1..(subdiv - 1)

\* the slots the scan has assigned so far
Filled == {e[1] : e \in placed}

\* the identifiers that are keys of the source
SourceIds == {PosterIndex(posters[n].key) : n \in DOMAIN posters}

\* the identifiers whose source record holds at least one tag entry
TaggedIds ==
    {PosterIndex(posters[n].key) : n \in {x \in DOMAIN posters : posters[x].general # <<>>}}

\* the candidates eligible for slot s: keys of the source other than a and b,
\* projected strictly inside the band and within half a slot width of s
EligibleFor(s) ==
    {c \in SourceIds \ {a, b} :
        /\ SegSq > 0
        /\ 2 * subdiv * ProjDot(c) > SegSq
        /\ 2 * subdiv * ProjDot(c) < (2 * subdiv - 1) * SegSq
        /\ (2 * s - 1) * SegSq <= 2 * subdiv * ProjDot(c)
        /\ 2 * subdiv * ProjDot(c) < (2 * s + 1) * SegSq}

\* the morphism with nothing placed
EmptyMorphism == [p \in 0..subdiv |-> IF p = subdiv THEN b ELSE IF p = 0 THEN a ELSE 0]

(***************************************************************************)
(* Properties                                                              *)
(***************************************************************************)

C2_SlotHoldsClosest ==
    (pc = "returned" /\ ValidEndpoints) =>
        \A s \in Filled :
            /\ morphism[s] \in EligibleFor(s)
            /\ \A c \in EligibleFor(s) :
                  \/ DistSq(s - 1, morphism[s]) < DistSq(s - 1, c)
                  \/ /\ DistSq(s - 1, morphism[s]) = DistSq(s - 1, c)
                     /\ morphism[s] <= c

\* C3: a call with a = b, or with a or b outside 0..row_count-1, fails.
C3_InvalidEndpointFails ==
    (CallActive /\ ~ValidEndpoints) => pc = "raised"

\* C4: in the result an interior slot shows the unfilled marker exactly when
\* the corpus holds no eligible candidate for that slot.
C4_UnfilledIffNoCandidate ==
    (pc = "returned" /\ ValidEndpoints) =>
        \A s \in Interior : (morphism[s] = 0) <=> (EligibleFor(s) = {})

\* C5: each candidate is assigned to at most one slot during a call, the
\* filled slots hold pairwise different identifiers, and a slot the scan did
\* not assign holds no identifier.
C5_NoDuplicateIdentifier ==
    (CallActive /\ ValidEndpoints /\ pc # "raised") =>
        /\ \A e1, e2 \in placed : e1[2] = e2[2] => e1[1] = e2[1]
        /\ \A s, t \in Filled : s # t => morphism[s] # morphism[t]
        /\ \A s \in Filled : morphism[s] \notin {a, b}
        /\ \A s \in Interior \ Filled : morphism[s] = 0

\* C5 witness: a returned morphism with two filled slots.
C5_Witness ==
    /\ pc = "returned"
    /\ ValidEndpoints
    /\ subdiv >= 3
    /\ Cardinality(Filled) >= 2
    /\ Cardinality(placed) >= 2

\* C6: with one subdivision a valid call places nothing and returns [a, b].
C6_OneSubdivision ==
    (CallActive /\ ValidEndpoints /\ subdiv = 1) =>
        /\ pc # "raised"
        /\ placed = {}
        /\ morphism = ((0 :> a) @@ (1 :> b))

\* C6 witness: a call with one subdivision has returned although the corpus
\* holds a poster projected exactly on the middle of the segment.
C6_Witness ==
    /\ pc = "returned"
    /\ ValidEndpoints
    /\ subdiv = 1
    /\ SegSq > 0
    /\ \E c \in SourceIds \ {a, b} : 2 * ProjDot(c) = SegSq

\* C7: once loaded, the matrix has max(identifier)+1 rows; the row of an
\* identifier of the source holds the recorded weight in the column of each
\* of its tags and zero elsewhere; the row of any other identifier is zero
\* and the identifier is not in the list of real identifiers.
C7_LoadedMatrix ==
    lpc = "ready" =>
        /\ \E m \in SourceIds :
              /\ \A x \in SourceIds : x <= m
              /\ DOMAIN poster_tags = 0..m
        /\ \A n \in DOMAIN posters :
              LET id == PosterIndex(posters[n].key)
                  general == posters[n].general
              IN  /\ PyIn(id, index_posters)
                  /\ \A t \in DOMAIN tags_definition :
                        \/ \E x \in DOMAIN general :
                              /\ general[x][1] = t
                              /\ poster_tags[id][tags_definition[t]] = general[x][2]
                        \/ /\ \A x \in DOMAIN general : general[x][1] # t
                           /\ poster_tags[id][tags_definition[t]] = 0
        /\ \A id \in DOMAIN poster_tags :
              id \notin SourceIds =>
                  /\ \A c \in Cols : poster_tags[id][c] = 0
                  /\ ~PyIn(id, index_posters)

\* C7 witness: a loaded corpus with an identifier missing below the largest
\* one and a poster that has a weight for every tag.
C7_Witness ==
    /\ lpc = "ready"
    /\ \E id \in DOMAIN poster_tags : id \notin SourceIds
    /\ \E n \in DOMAIN posters : Len(posters[n].general) = nb_tags

C10_DegenerateSegment ==
    (CallActive /\ ValidEndpoints /\ SegSq = 0) =>
        /\ pc # "raised"
        /\ placed = {}
        /\ morphism = EmptyMorphism

\* C10 witness: such a call has returned, with interior slots and with a
\* poster other than a and b in the corpus.
C10_Witness ==
    /\ pc = "returned"
    /\ ValidEndpoints
    /\ SegSq = 0
    /\ subdiv >= 2
    /\ SourceIds \ {a, b} # {}

\* C11: after any sequence of rate_work requests, interleaved ones of the
\* same user on the same work included, every (user, work) pair has at most
\* one rating.
C11_AtMostOneRating ==
    \A u \in Users, w \in Works :
        Cardinality({r \in ratings : r.user = u /\ r.work = w}) <= 1

====
